---- MODULE Spec2Model ----
(***************************************************************************)
(* State machine of G2C's GameState (src/src/g2c.py): a dict-backed state  *)
(* store with checkpoint snapshots.  Python dict objects are modelled as   *)
(* cells of an object store addressed by identity, so that dict.copy()     *)
(* (a new object with the same top-level items) is distinguishable from    *)
(* aliasing, and values of type Any may be references to mutable objects   *)
(* living in a separate heap.                                              *)
(***************************************************************************)
EXTENDS Integers, Sequences, FiniteSets, TLC

\* ---------------------------------------------------------------- bounds
\* Longest history explored (save_checkpoint is disabled beyond it).
MaxHistory == 2
\* Most lines one call of get_number / get_choice reads before the
\* exploration stops following it.
MaxReads == 3
\* Most blocks in the encoder and in the decoder of a model.
MaxBlocks == 2
\* Most samples in a batch given to generate_with_correction.
MaxBatch == 2

\* ---------------------------------------------------------------- values
\* Python values: every value is a record with the same fields, so that any
\* two values can be compared.
IntVal(n) == [tag |-> "int", n |-> n]
Ref(o)    == [tag |-> "ref", n |-> o]
None      == [tag |-> "none", n |-> 0]
\* A private clone of a mutable object holding content c (only a deep copy
\* would create one; GameState never does).
Clone(c)  == [tag |-> "clone", n |-> c]

Keys     == {"score", "level"}
Ints     == {1000, 2000}
ObjIds   == {1}
Contents == {0, 1}
Values   == {IntVal(n) : n \in Ints} \cup {Ref(o) : o \in ObjIds}
Defaults == {None, IntVal(0)}

\* Identities of dict objects: the live dict and one per snapshot.
DictIds  == 1 .. (MaxHistory + 1)
\* Arguments tried for restore_checkpoint(index) against a history of length
\* n: every in-range index, and the nearest out-of-range one on each side.
Indices(n) == (0 - (n + 1)) .. n

VARIABLES
  store,    \* dict identity -> contents (a function from a subset of Keys)
  data,     \* self.data: identity of the current mapping
  history,  \* self.history: sequence of dict identities
  heap,     \* contents of the mutable objects values may refer to
  call,     \* the call that produced this state, with its arguments
  ret,      \* what that call returned
  err       \* the exception that call raised, "none" if it returned

vars == <<store, data, history, heap, call, ret, err>>

\* ------------------------------------------------ the other components
\* InputHandler (src/src/g2c.py:90-123) and get_yes_no: one call at a time,
\* blocked in input() between two steps.
VARIABLES
  ih_pc,     \* "idle", "input" (blocked in input(prompt)) or "done"
  ih_call,   \* the function called and its arguments
  ih_lines,  \* the lines input() has returned to this call, in order
  ih_out,    \* the messages this call has printed, in order
  ih_ret     \* the value the call returned

ihVars == <<ih_pc, ih_call, ih_lines, ih_out, ih_ret>>

InputHandlerIdle ==
  /\ ih_pc    = "idle"
  /\ ih_call  = [fn |-> "none"]
  /\ ih_lines = << >>
  /\ ih_out   = << >>
  /\ ih_ret   = None

\* freeze_model_parameters (src/model.py:166-223) and the model it is given.
VARIABLES
  n_enc,          \* len(model.encoder.block)
  n_dec,          \* len(model.decoder.block)
  tied,           \* whether model.encoder.parameters() yields the parameter
                  \* of model.shared (encoder.embed_tokens is model.shared)
  requires_grad,  \* parameter -> its requires_grad flag
  fz_call,        \* the arguments of the last freeze_model_parameters call
  fz_err          \* the exception that call raised, "none" if it returned

fzVars == <<n_enc, n_dec, tied, requires_grad, fz_call, fz_err>>

\* The parameters of the model, one per block (a block's parameters are
\* always handled together), plus those outside the blocks.
EncBlock(i) == [part |-> "encoder.block", idx |-> i]
DecBlock(i) == [part |-> "decoder.block", idx |-> i]
EncNorm     == [part |-> "encoder.final_layer_norm", idx |-> 0]
DecNorm     == [part |-> "decoder.final_layer_norm", idx |-> 0]
Shared      == [part |-> "shared", idx |-> 0]
Parameters(n, m) ==
  {EncBlock(i) : i \in 0 .. (n - 1)} \cup {DecBlock(i) : i \in 0 .. (m - 1)}
    \cup {EncNorm, DecNorm, Shared}

\* A model whose freeze_model_parameters has not been called: one block on
\* each side, everything trainable.
FreezeIdle ==
  /\ n_enc = 1
  /\ n_dec = 1
  /\ tied  = TRUE
  /\ requires_grad = [p \in Parameters(1, 1) |-> TRUE]
  /\ fz_call = [fn |-> "none"]
  /\ fz_err  = "none"

\* TwoStageT5Model (src/model.py:12-163): its configuration, the call in
\* progress, and the calls it has made into the two wrapped models.
VARIABLES
  correction_model,   \* self.correction_model: "None" or the model's name
  correction_prompt,  \* self.correction_prompt: [given, text]
  ts_pc,              \* "idle", "stage1", "stage2" or "done"
  ts_call,            \* the method called and its arguments
  initial_outputs,    \* generate_with_correction's local of that name
  correction_inputs,  \* generate_with_correction's local of that name
  ts_trace,           \* the calls made into the wrapped models, in order
  ts_ret              \* what the method returned

tsVars == <<correction_model, correction_prompt, ts_pc, ts_call,
            initial_outputs, correction_inputs, ts_trace, ts_ret>>

\* A wrapper without correction model on which nothing has been called.
TwoStageIdle ==
  /\ correction_model  = "None"
  /\ correction_prompt = [given |-> FALSE, text |-> << >>]
  /\ ts_pc = "idle"
  /\ ts_call = [fn |-> "none"]
  /\ initial_outputs = << >>
  /\ correction_inputs = << >>
  /\ ts_trace = << >>
  /\ ts_ret = None

allVars == <<vars, ihVars, fzVars, tsVars>>

EmptyDict == [k \in {} |-> None]
Range(s)  == {s[i] : i \in 1 .. Len(s)}
Last(s)   == s[Len(s)]

\* ------------------------------------------------------- dict primitives
\* d[key] = value
DictSetOnly(d, key, value) == [k \in {key} |-> value]
DictSet(d, key, value) ==
  [k \in (DOMAIN d) \cup {key} |-> IF k = key THEN value ELSE d[k]]

\* d.get(key, default)
DictGet(d, key, default) == IF key \in DOMAIN d THEN d[key] ELSE default

\* d.copy(): the items of a new dict holding the same top-level values
\* (references are copied, the objects they refer to are not).
DictDeepCopy(d) ==
  [k \in DOMAIN d |-> IF d[k].tag = "ref" THEN Clone(heap[d[k].n]) ELSE d[k]]
DictCopy(d) == [k \in DOMAIN d |-> d[k]]

\* list[index] of a list of length n: whether it is in range, and the
\* 1-based position it selects (negative indices count from the end).
ListIndexOK(n, index) == (0 - n) <= index /\ index < n
ListPosLastIfNegative(n, index) == IF index >= 0 THEN index + 1 ELSE n
ListPos(n, index) == IF index >= 0 THEN index + 1 ELSE n + index + 1

\* Identity given to a newly created dict: the first one no object in
\* `live` has.
NewDict(live) == CHOOSE i \in DictIds :
                   /\ i \notin live
                   /\ \A j \in DictIds : j < i => j \in live

\* Reference counting: a dict no longer referenced by d or h is released.
Collect(s, d, h) ==
  [i \in DictIds |-> IF i = d \/ i \in Range(h) THEN s[i] ELSE EmptyDict]

\* ------------------------------------------------------------------ Init
Init ==
  /\ store   = [i \in DictIds |-> EmptyDict]
  /\ data    = 1
  /\ history = << >>
  /\ heap    \in [ObjIds -> Contents]
  /\ call    = [name |-> "init"]
  /\ ret     = None
  /\ err     = "none"

\* --------------------------------------------------------------- actions
\* GameState.set(key, value)
set(key, value) ==
  /\ UNCHANGED <<ihVars, fzVars, tsVars>>
  /\ store' = [store EXCEPT ![data] = DictSet(store[data], key, value)]
  /\ call'  = [name |-> "set", key |-> key, value |-> value]
  /\ ret'   = None
  /\ err'   = "none"
  /\ UNCHANGED <<data, history, heap>>

\* GameState.get(key, default)
get_setdefault(key, default) ==
  /\ UNCHANGED <<ihVars, fzVars, tsVars>>
  /\ ret'   = DictGet(store[data], key, default)
  /\ store' = [store EXCEPT ![data] =
                 IF key \in DOMAIN store[data] THEN store[data]
                 ELSE DictSet(store[data], key, default)]
  /\ call'  = [name |-> "get", key |-> key, default |-> default]
  /\ err'   = "none"
  /\ UNCHANGED <<data, history, heap>>
get(key, default) ==
  /\ UNCHANGED <<ihVars, fzVars, tsVars>>
  /\ ret'   = DictGet(store[data], key, default)
  /\ call'  = [name |-> "get", key |-> key, default |-> default]
  /\ err'   = "none"
  /\ UNCHANGED <<store, data, history, heap>>

\* GameState.save_checkpoint()
save_checkpoint_alias ==
  /\ UNCHANGED <<ihVars, fzVars, tsVars>>
  /\ Len(history) < MaxHistory
  /\ history' = Append(history, data)
  /\ call'    = [name |-> "save"]
  /\ ret'     = None
  /\ err'     = "none"
  /\ UNCHANGED <<store, data, heap>>
save_checkpoint ==
  /\ UNCHANGED <<ihVars, fzVars, tsVars>>
  /\ Len(history) < MaxHistory
  /\ LET new == NewDict({data} \cup Range(history))
     IN  /\ store'   = [store EXCEPT ![new] = DictCopy(store[data])]
         /\ history' = Append(history, new)
  /\ call'    = [name |-> "save"]
  /\ ret'     = None
  /\ err'     = "none"
  /\ UNCHANGED <<data, heap>>

\* GameState.restore_checkpoint(index)
\* Variants of restore_checkpoint with one statement changed.
\*   self.data = self.history[index]            (no copy)
restore_checkpoint_alias(index) ==
  /\ UNCHANGED <<ihVars, fzVars, tsVars>>
  /\ call' = [name |-> "restore", index |-> index]
  /\ ret'  = None
  /\ IF Len(history) = 0
       THEN /\ err' = "none"
            /\ UNCHANGED <<store, data, history, heap>>
       ELSE IF ListIndexOK(Len(history), index)
         THEN LET new == history[ListPos(Len(history), index)]
              IN  /\ data'  = new
                  /\ store' = Collect(store, new, history)
                  /\ err'   = "none"
                  /\ UNCHANGED <<history, heap>>
         ELSE /\ err' = "IndexError"
              /\ UNCHANGED <<store, data, history, heap>>
\*   self.data.update(self.history[index])      (merge instead of replace)
restore_checkpoint_update(index) ==
  /\ UNCHANGED <<ihVars, fzVars, tsVars>>
  /\ call' = [name |-> "restore", index |-> index]
  /\ ret'  = None
  /\ IF Len(history) = 0
       THEN /\ err' = "none"
            /\ UNCHANGED <<store, data, history, heap>>
       ELSE IF ListIndexOK(Len(history), index)
         THEN LET src == store[history[ListPos(Len(history), index)]]
                  old == store[data]
              IN  /\ store' = [store EXCEPT ![data] =
                        [k \in (DOMAIN old) \cup (DOMAIN src) |->
                           IF k \in DOMAIN src THEN src[k] ELSE old[k]]]
                  /\ err'   = "none"
                  /\ UNCHANGED <<data, history, heap>>
         ELSE /\ err' = "IndexError"
              /\ UNCHANGED <<store, data, history, heap>>
\*   self.data = self.history[index].copy()     (without `if self.history`)
restore_checkpoint_unguarded(index) ==
  /\ UNCHANGED <<ihVars, fzVars, tsVars>>
  /\ call' = [name |-> "restore", index |-> index]
  /\ ret'  = None
  /\ IF ListIndexOK(Len(history), index)
       THEN LET new == NewDict(Range(history))
                src == store[history[ListPos(Len(history), index)]]
            IN  /\ data'  = new
                /\ store' = Collect([store EXCEPT ![new] = DictCopy(src)],
                                    new, history)
                /\ err'   = "none"
                /\ UNCHANGED <<history, heap>>
       ELSE /\ err' = "IndexError"
            /\ UNCHANGED <<store, data, history, heap>>
\*   an out-of-range index is ignored instead of raising
restore_checkpoint_silent(index) ==
  /\ UNCHANGED <<ihVars, fzVars, tsVars>>
  /\ call' = [name |-> "restore", index |-> index]
  /\ ret'  = None
  /\ err'  = "none"
  /\ IF Len(history) > 0 /\ ListIndexOK(Len(history), index)
       THEN LET new == NewDict(Range(history))
                src == store[history[ListPos(Len(history), index)]]
            IN  /\ data'  = new
                /\ store' = Collect([store EXCEPT ![new] = DictCopy(src)],
                                    new, history)
                /\ UNCHANGED <<history, heap>>
       ELSE UNCHANGED <<store, data, history, heap>>
\*   self.data = self.history.pop(index)        (consumes the checkpoint)
restore_checkpoint_pop(index) ==
  /\ UNCHANGED <<ihVars, fzVars, tsVars>>
  /\ call' = [name |-> "restore", index |-> index]
  /\ ret'  = None
  /\ IF Len(history) = 0
       THEN /\ err' = "none"
            /\ UNCHANGED <<store, data, history, heap>>
       ELSE IF ListIndexOK(Len(history), index)
         THEN LET pos  == ListPos(Len(history), index)
                  rest == SubSeq(history, 1, pos - 1)
                            \o SubSeq(history, pos + 1, Len(history))
              IN  /\ data'    = history[pos]
                  /\ history' = rest
                  /\ store'   = Collect(store, history[pos], rest)
                  /\ err'     = "none"
                  /\ UNCHANGED heap
         ELSE /\ err' = "IndexError"
              /\ UNCHANGED <<store, data, history, heap>>
\* The method as written.
restore_checkpoint(index) ==
  /\ UNCHANGED <<ihVars, fzVars, tsVars>>
  /\ call' = [name |-> "restore", index |-> index]
  /\ ret'  = None
  /\ IF Len(history) = 0
       THEN /\ err' = "none"
            /\ UNCHANGED <<store, data, history, heap>>
       ELSE IF ListIndexOK(Len(history), index)
         THEN \* the dict self.data was bound to is released by the
              \* rebinding unless a snapshot is the same object, so only
              \* the snapshots count as live for the new dict's identity
              LET new == NewDict(Range(history))
                  src == store[history[ListPos(Len(history), index)]]
              IN  /\ data'  = new
                  /\ store' = Collect([store EXCEPT ![new] = DictCopy(src)],
                                      new, history)
                  /\ err'   = "none"
              /\ UNCHANGED <<history, heap>>
         ELSE /\ err' = "IndexError"
              /\ UNCHANGED <<store, data, history, heap>>

\* The caller mutates in place an object it stored in (or got from) the
\* state, e.g. state.get("inventory").append(item); no GameState method runs.
mutate(o, c) ==
  /\ UNCHANGED <<ihVars, fzVars, tsVars>>
  /\ heap[o] # c
  /\ heap' = [heap EXCEPT ![o] = c]
  /\ call' = [name |-> "mutate", obj |-> o, content |-> c]
  /\ ret'  = None
  /\ err'  = "none"
  /\ UNCHANGED <<store, data, history>>

Next ==
  \/ \E key \in Keys, value \in Values : set(key, value)
  \/ \E key \in Keys, default \in Defaults : get(key, default)
  \/ save_checkpoint
  \/ \E index \in Indices(Len(history)) : restore_checkpoint(index)
  \/ \E o \in ObjIds, c \in Contents : mutate(o, c)

\* The state store on its own: the other components stay as constructed.
StoreInit == Init /\ InputHandlerIdle /\ FreezeIdle /\ TwoStageIdle
Spec == StoreInit /\ [][Next]_allVars

\* ------------------------------------------------------- observations
\* The current mapping and the snapshots, by content.
Current      == store[data]
Snapshot(i)  == store[history[i]]
\* What state.get(key) with the default omitted returns in this state.
Lookup(key)  == IF key \in DOMAIN store[data] THEN store[data][key] ELSE None
Returned     == err = "none"
\* What a reader of value v sees: the object's content for a reference.
Deref(v)     == IF v.tag = "ref" THEN heap[v.n] ELSE v.n

\* ---------------------------------------------------------------- C1
\* C1: immediately after set(k, v), get(k) returns v (insert or overwrite)
\* and every other key reads the same through get, with any default, as it
\* did before the set.
C1_SetThenGet ==
  [][call'.name = "set" =>
       /\ \A d \in Defaults :
            DictGet(store'[data'], call'.key, d) = call'.value
       /\ \A k \in Keys \ {call'.key} : \A d \in Defaults :
            DictGet(store'[data'], k, d) = DictGet(store[data], k, d)]_vars

\* A set that overwrote a key (its snapshot value differs from the value
\* now set) while the other key is present.
C1_Witness ==
  /\ call.name = "set"
  /\ DOMAIN Current = Keys
  /\ Len(history) >= 1
  /\ call.key \in DOMAIN Snapshot(1)
  /\ Snapshot(1)[call.key] # call.value
  /\ Current[call.key] = call.value

\* ---------------------------------------------------------------- C2
\* C2: save_checkpoint makes the most recent history entry equal to the
\* current mapping at that moment, and every later set (on any key, new or
\* old) leaves that entry exactly as it is.
C2_SnapshotIsolated ==
  [][/\ call'.name = "save" =>
          /\ Len(history') >= 1
          /\ store'[Last(history')] = store[data]
     /\ (call'.name = "set" /\ Len(history) >= 1) =>
          /\ Len(history') >= 1
          /\ store'[Last(history')] = store[Last(history)]]_vars

\* After a save, a set made the current mapping differ from the last entry
\* on a key that did not exist at save time.
C2_Witness ==
  /\ call.name = "set"
  /\ Len(history) >= 1
  /\ call.key \notin DOMAIN store[Last(history)]
  /\ call.key \in DOMAIN Current
  /\ DOMAIN store[Last(history)] # {}

\* ---------------------------------------------------------------- C3
\* C3: with a non-empty history, restore_checkpoint() (index -1) makes the
\* current mapping exactly the most recently saved snapshot: same keys,
\* same values, keys set later absent again.
C3_RestoreLatest ==
  [][(call'.name = "restore" /\ call'.index = 0 - 1 /\ Len(history) >= 1) =>
       /\ err' = "none"
       /\ store'[data'] = store[Last(history)]
       /\ \A k \in Keys :
            DictGet(store'[data'], k, None)
              = DictGet(store[Last(history)], k, None)]_vars

\* The spec's example: the snapshot holds score = 1000 only, and after
\* restore_checkpoint() score reads 1000 and level is absent again.
C3_Witness ==
  /\ call.name = "restore"
  /\ call.index = 0 - 1
  /\ Len(history) >= 1
  /\ store[Last(history)] = [k \in {"score"} |-> IntVal(1000)]
  /\ Lookup("score") = IntVal(1000)
  /\ Lookup("level") = None

\* ---------------------------------------------------------------- C4
\* C4: with an empty history, restore_checkpoint(index) for any index
\* leaves the current mapping unchanged, history empty, and raises nothing.
C4_RestoreEmptyHistory ==
  [][(call'.name = "restore" /\ Len(history) = 0) =>
       /\ store'[data'] = store[data]
       /\ data' = data
       /\ history' = << >>
       /\ err' = "none"]_vars

\* restore_checkpoint on an empty history with a non-empty mapping.
C4_Witness ==
  /\ call.name = "restore"
  /\ Len(history) = 0
  /\ DOMAIN Current = Keys
  /\ Returned

\* ---------------------------------------------------------------- C5
\* C5: get(k, d) returns the stored value when k is set and d when it is
\* not, raises nothing, and changes neither the mapping (an absent key is
\* not inserted) nor history.
C5_GetPure ==
  [][call'.name = "get" =>
       /\ ret' = (IF call'.key \in DOMAIN store[data]
                    THEN store[data][call'.key] ELSE call'.default)
       /\ err' = "none"
       /\ store' = store
       /\ data' = data
       /\ history' = history
       /\ heap' = heap]_vars

\* A get of an absent key with a default other than None.
C5_Witness ==
  /\ call.name = "get"
  /\ call.key \notin DOMAIN Current
  /\ call.default = IntVal(0)
  /\ ret = IntVal(0)

\* ---------------------------------------------------------------- C6
\* C6 as stated: set, save_checkpoint and restore_checkpoint(index) return
\* without raising for every argument in every reachable state.
C6_AllTotal ==
  call.name \in {"set", "save", "restore"} => err = "none"

\* C6 as amended: set and save_checkpoint never raise; restore_checkpoint
\* (index) raises IndexError exactly when history holds n >= 1 snapshots and
\* index is outside -n .. n-1, and then changes nothing; with an empty
\* history or an in-range index it returns normally.
C6_TotalExceptIndexError ==
  [][/\ call'.name \in {"set", "save", "get", "mutate"} => err' = "none"
     /\ call'.name = "restore" =>
          /\ err' \in {"none", "IndexError"}
          /\ err' = "IndexError" <=>
                /\ Len(history) >= 1
                /\ \/ call'.index < 0 - Len(history)
                   \/ call'.index >= Len(history)
          /\ err' = "IndexError" =>
                /\ store' = store
                /\ data' = data
                /\ history' = history
                /\ heap' = heap]_vars

\* An out-of-range restore against a non-empty history and mapping raised.
C6_Witness ==
  /\ call.name = "restore"
  /\ err = "IndexError"
  /\ Len(history) = 2
  /\ call.index = 2
  /\ DOMAIN Current # {}

\* ---------------------------------------------------------------- C7
\* C7: with n >= 1 snapshots and -n <= i < n, restore_checkpoint(i) makes
\* the current mapping the i-th snapshot, counting from the oldest for
\* i >= 0 and from the end for i < 0, and leaves every snapshot (also the
\* ones saved after the restored one) in place and unchanged.
C7_RestoreByIndex ==
  [][(/\ call'.name = "restore"
      /\ Len(history) >= 1
      /\ 0 - Len(history) <= call'.index
      /\ call'.index < Len(history)) =>
       /\ err' = "none"
       /\ store'[data'] =
            (IF call'.index >= 0
               THEN store[history[call'.index + 1]]
               ELSE store[history[Len(history) + call'.index + 1]])
       /\ Len(history') = Len(history)
       /\ \A i \in 1 .. Len(history) :
            store'[history'[i]] = store[history[i]]]_vars

\* The oldest of two different snapshots was restored through the negative
\* index -2, and the newer one is still there.
C7_Witness ==
  /\ call.name = "restore"
  /\ Len(history) = 2
  /\ call.index = 0 - 2
  /\ Snapshot(1) # Snapshot(2)
  /\ Current = Snapshot(1)
  /\ Returned

\* ---------------------------------------------------------------- C8
\* C8: history is append-only and its entries never change at the top
\* level: every call keeps each existing entry at its position with the
\* same key-to-value mapping.
C8_HistoryImmutable ==
  [][/\ Len(history') >= Len(history)
     /\ \A i \in 1 .. Len(history) :
          store'[history'[i]] = store[history[i]]]_vars

\* After restore_checkpoint(i) a set changed the restored mapping, which
\* now differs from the snapshot it was restored from.
C8_Witness ==
  /\ call.name = "set"
  /\ Len(history) = 2
  /\ DOMAIN Snapshot(1) = Keys
  /\ Snapshot(1)[call.key] # call.value
  /\ \A k \in Keys \ {call.key} :
       k \in DOMAIN Current /\ Current[k] = Snapshot(1)[k]
  /\ Current # Snapshot(2)

\* ---------------------------------------------------------------- C9
\* C9: snapshots are shallow.  save_checkpoint stores, and a successful
\* restore_checkpoint brings back, the very same value under each key (for a
\* mutable object: the same reference, not a clone), in a dict object of its
\* own; so an in-place mutation of an object, which touches no dict, is seen
\* through the current mapping and through every snapshot holding it.
C9_ShallowSharing ==
  [][/\ call'.name = "save" =>
          /\ Last(history') # data'
          /\ DOMAIN store'[Last(history')] = DOMAIN store[data]
          /\ \A k \in DOMAIN store[data] :
               store'[Last(history')][k] = store[data][k]
     /\ (call'.name = "restore" /\ err' = "none" /\ Len(history) >= 1) =>
          /\ data' \notin Range(history')
          /\ \E i \in 1 .. Len(history) :
               /\ DOMAIN store'[data'] = DOMAIN store[history[i]]
               /\ \A k \in DOMAIN store[history[i]] :
                    store'[data'][k] = store[history[i]][k]
     /\ call'.name = "mutate" =>
          /\ store' = store /\ data' = data /\ history' = history
          /\ \A id \in {data} \cup Range(history) :
               \A k \in DOMAIN store[id] :
                 (store[id][k] = Ref(call'.obj)) =>
                   (/\ store'[id][k] = Ref(call'.obj)
                    /\ heap'[store'[id][k].n] = call'.content)]_vars

\* An object held by both the current mapping and the last snapshot was
\* mutated in place: both now show the new content.
C9_Witness ==
  /\ call.name = "mutate"
  /\ Len(history) >= 1
  /\ "score" \in DOMAIN Current
  /\ "score" \in DOMAIN store[Last(history)]
  /\ Current["score"] = Ref(call.obj)
  /\ store[Last(history)]["score"] = Ref(call.obj)
  /\ Deref(store[Last(history)]["score"]) = call.content
  /\ Deref(Current["score"]) = call.content

\* --------------------------------------------------------------- C10
\* C10: a new GameState has an empty mapping and an empty history;
\* save_checkpoint lengthens history by exactly one and leaves every get
\* unchanged; set and restore_checkpoint leave history unchanged in length
\* and content.
C10_Frames ==
  /\ (store[data] = EmptyDict /\ history = << >>)
  /\ [][/\ call'.name = "save" =>
              /\ Len(history') = Len(history) + 1
              /\ \A k \in Keys : \A d \in Defaults :
                   DictGet(store'[data'], k, d) = DictGet(store[data], k, d)
        /\ call'.name \in {"set", "restore"} =>
              /\ Len(history') = Len(history)
              /\ \A i \in 1 .. Len(history) :
                   store'[history'[i]] = store[history[i]]]_vars

\* A second checkpoint was saved from a non-empty mapping.
C10_Witness ==
  /\ call.name = "save"
  /\ Len(history) = 2
  /\ DOMAIN Current = Keys
  /\ store[Last(history)] = Current
  /\ Snapshot(1) # Current

\* =============================================================== input
\* A line of input is a sequence of characters.
Digits == {"0", "1", "2", "3", "4", "5", "6", "7", "8", "9"}
DigitVal(c) ==
  CASE c = "0" -> 0 [] c = "1" -> 1 [] c = "2" -> 2 [] c = "3" -> 3
    [] c = "4" -> 4 [] c = "5" -> 5 [] c = "6" -> 6 [] c = "7" -> 7
    [] c = "8" -> 8 [] c = "9" -> 9

\* str.strip() as int() applies it to its argument.
RECURSIVE StripLeft(_)
StripLeft(s) == IF s # << >> /\ s[1] = " " THEN StripLeft(Tail(s)) ELSE s
RECURSIVE StripRight(_)
StripRight(s) ==
  IF s # << >> /\ s[Len(s)] = " "
    THEN StripRight(SubSeq(s, 1, Len(s) - 1)) ELSE s
Strip(s) == StripRight(StripLeft(s))

\* int(s): surrounding blanks are dropped, then an optional sign and at
\* least one decimal digit must remain; otherwise ValueError.
Signed(s)   == s # << >> /\ s[1] \in {"-", "+"}
Unsigned(s) == IF Signed(s) THEN Tail(s) ELSE s
RaisesValueError(s) ==
  LET body == Unsigned(Strip(s))
  IN  body = << >> \/ \E i \in 1 .. Len(body) : body[i] \notin Digits
RECURSIVE Magnitude(_)
Magnitude(body) ==
  IF body = << >> THEN 0
  ELSE 10 * Magnitude(SubSeq(body, 1, Len(body) - 1))
         + DigitVal(body[Len(body)])
IntOf(s) ==
  LET t == Strip(s)
  IN  IF t # << >> /\ t[1] = "-" THEN 0 - Magnitude(Tail(t))
      ELSE Magnitude(Unsigned(t))

\* Lines the user may type at a get_number prompt, and the bounds callers
\* pass (advanced_game.py passes 1 and 3; None when omitted).
NumberLines == { <<"1">>, <<"3">>, <<"4">>, <<"0">>, <<"-", "2">>,
                 <<"1", "2">>, <<" ", "2">>, << >>, <<"x">>, <<"2", "x">> }
NumberBounds == {None, IntVal(1), IntVal(3)}

\* The two range tests of get_number.
BelowMinInclusive(value, min_val) == min_val # None /\ value <= min_val.n
BelowMin(value, min_val) == min_val # None /\ value < min_val.n
AboveMax(value, max_val) == max_val # None /\ value > max_val.n

\* InputHandler.get_number(prompt, min_val, max_val) is called.
get_number_call(min_val, max_val) ==
  /\ UNCHANGED <<vars, fzVars, tsVars>>
  /\ ih_pc = "idle"
  /\ ih_pc'    = "input"
  /\ ih_call'  = [fn |-> "get_number", min_val |-> min_val,
                                       max_val |-> max_val]
  /\ ih_lines' = << >>
  /\ ih_out'   = << >>
  /\ ih_ret'   = None

\* One iteration of get_number's loop: input() returns `line`.
get_number_read(line) ==
  /\ UNCHANGED <<vars, fzVars, tsVars>>
  /\ ih_pc = "input"
  /\ ih_call.fn = "get_number"
  /\ Len(ih_lines) < MaxReads
  /\ ih_lines' = Append(ih_lines, line)
  /\ ih_call'  = ih_call
  /\ IF RaisesValueError(line)
       THEN /\ ih_out' = Append(ih_out, [msg |-> "Please enter a valid number.",
                                         arg |-> None])
            /\ UNCHANGED <<ih_pc, ih_ret>>
       ELSE IF BelowMin(IntOf(line), ih_call.min_val)
         THEN /\ ih_out' = Append(ih_out, [msg |-> "Value must be at least",
                                           arg |-> ih_call.min_val])
              /\ UNCHANGED <<ih_pc, ih_ret>>
         ELSE IF AboveMax(IntOf(line), ih_call.max_val)
           THEN /\ ih_out' = Append(ih_out, [msg |-> "Value must be at most",
                                             arg |-> ih_call.max_val])
                /\ UNCHANGED <<ih_pc, ih_ret>>
           ELSE /\ ih_ret' = IntVal(IntOf(line))
                /\ ih_pc'  = "done"
                /\ UNCHANGED ih_out

\* The caller takes the result; another call may follow.
input_return ==
  /\ UNCHANGED <<vars, fzVars, tsVars>>
  /\ ih_pc = "done"
  /\ ih_pc'    = "idle"
  /\ ih_call'  = [fn |-> "none"]
  /\ ih_lines' = << >>
  /\ ih_out'   = << >>
  /\ ih_ret'   = None

NextNumber ==
  \/ \E min_val \in NumberBounds, max_val \in NumberBounds :
       get_number_call(min_val, max_val)
  \/ \E line \in NumberLines : get_number_read(line)
  \/ input_return

NumberInit == Init /\ InputHandlerIdle /\ FreezeIdle /\ TwoStageIdle
SpecNumber == NumberInit /\ [][NextNumber]_allVars

\* --------------------------------------------------------------- C11
\* The integers written by the lines used here, read off independently of
\* IntOf ("no" for a line that is not an integer).
WrittenInt(line) ==
  CASE line = <<"1">> -> IntVal(1)
    [] line = <<"3">> -> IntVal(3)
    [] line = <<"4">> -> IntVal(4)
    [] line = <<"0">> -> IntVal(0)
    [] line = <<"-", "2">> -> IntVal(0 - 2)
    [] line = <<"1", "2">> -> IntVal(12)
    [] line = <<" ", "2">> -> IntVal(2)
    [] OTHER -> None
\* A line get_number(min_val, max_val) must accept.
InRangeLine(line, min_val, max_val) ==
  /\ WrittenInt(line) # None
  /\ min_val # None => WrittenInt(line).n >= min_val.n
  /\ max_val # None => WrittenInt(line).n <= max_val.n

\* C11: get_number returns only when the line just read is an integer
\* within [min_val, max_val] (each bound applying only when given), returns
\* that integer, and no earlier line was such a line; while it has not
\* returned no such line has been read, and every rejected line has been
\* answered by one message; so with min_val > max_val it never returns.
C11_FirstValidNumber ==
  ih_call.fn = "get_number" =>
    LET lo == ih_call.min_val
        hi == ih_call.max_val
        n  == Len(ih_lines)
    IN  /\ ih_pc = "done" =>
             /\ n >= 1
             /\ InRangeLine(ih_lines[n], lo, hi)
             /\ ih_ret = WrittenInt(ih_lines[n])
             /\ \A j \in 1 .. (n - 1) : ~InRangeLine(ih_lines[j], lo, hi)
             /\ Len(ih_out) = n - 1
        /\ ih_pc = "input" =>
             /\ \A j \in 1 .. n : ~InRangeLine(ih_lines[j], lo, hi)
             /\ Len(ih_out) = n
        /\ (lo # None /\ hi # None /\ lo.n > hi.n) => ih_pc # "done"

\* get_number(1, 3) rejected an unparsable line and an out-of-range one,
\* then returned the boundary value 1.
C11_Witness ==
  /\ ih_call.fn = "get_number"
  /\ ih_pc = "done"
  /\ ih_call.min_val = IntVal(1)
  /\ ih_call.max_val = IntVal(3)
  /\ ih_lines = << <<"x">>, <<"4">>, <<"1">> >>
  /\ ih_ret = IntVal(1)

\* ------------------------------------------------------------ get_choice
\* str.lower() on the characters that occur here.
LowerChar(c) ==
  CASE c = "Y" -> "y" [] c = "E" -> "e" [] c = "S" -> "s"
    [] c = "N" -> "n" [] c = "O" -> "o" [] OTHER -> c
Lower(s) == [i \in 1 .. Len(s) |-> LowerChar(s[i])]
\* [choice.lower() for choice in choices]
LowerAll(choices) == [i \in 1 .. Len(choices) |-> Lower(choices[i])]

\* The list get_yes_no passes, a list with capitals in it, and the lines
\* the user may type at a get_choice prompt.
YesNoChoices == << <<"y">>, <<"y", "e", "s">>, <<"n">>, <<"n", "o">> >>
ChoiceLists  == { YesNoChoices, << <<"Y">>, <<"N", "o">> >> }
ChoiceLines  == { <<"y">>, <<"Y">>, <<"y", "e", "s">>, <<"Y", "e", "s">>,
                  <<"n">>, <<"n", "o">>, <<"N", "o">>, <<"N", "O">>,
                  << >>, <<" ", "y">> }

\* `choices` and `user_input` as get_choice compares them.
EffectiveChoices(choices, case_sensitive) ==
  IF case_sensitive THEN choices ELSE LowerAll(choices)
EffectiveInput(line, case_sensitive) ==
  IF case_sensitive THEN line ELSE Lower(line)

\* InputHandler.get_choice(prompt, choices, case_sensitive) is called.
get_choice_call(choices, case_sensitive) ==
  /\ UNCHANGED <<vars, fzVars, tsVars>>
  /\ ih_pc = "idle"
  /\ ih_pc'    = "input"
  /\ ih_call'  = [fn |-> "get_choice", choices |-> choices,
                   case_sensitive |-> case_sensitive]
  /\ ih_lines' = << >>
  /\ ih_out'   = << >>
  /\ ih_ret'   = None

\* get_yes_no(prompt) is called: it calls get_choice with its own list and
\* the default case_sensitive = False.
get_yes_no_call ==
  /\ UNCHANGED <<vars, fzVars, tsVars>>
  /\ ih_pc = "idle"
  /\ ih_pc'    = "input"
  /\ ih_call'  = [fn |-> "get_yes_no", choices |-> YesNoChoices,
                   case_sensitive |-> FALSE]
  /\ ih_lines' = << >>
  /\ ih_out'   = << >>
  /\ ih_ret'   = None

\* One iteration of get_choice's loop: input() returns `line`.  When the
\* call came from get_yes_no, the returned choice is turned into a bool.
\* Variant: returns the line as typed instead of the lowered user_input.
get_choice_read_raw(line) ==
  /\ UNCHANGED <<vars, fzVars, tsVars>>
  /\ ih_pc = "input"
  /\ ih_call.fn \in {"get_choice", "get_yes_no"}
  /\ Len(ih_lines) < MaxReads
  /\ ih_lines' = Append(ih_lines, line)
  /\ ih_call'  = ih_call
  /\ LET choices    == EffectiveChoices(ih_call.choices, ih_call.case_sensitive)
         user_input == EffectiveInput(line, ih_call.case_sensitive)
     IN  IF user_input \in Range(choices)
           THEN /\ ih_ret' = IF ih_call.fn = "get_yes_no"
                               THEN line \in {<<"y">>, <<"y", "e", "s">>}
                               ELSE line
                /\ ih_pc'  = "done"
                /\ UNCHANGED ih_out
           ELSE /\ ih_out' = Append(ih_out,
                               [msg |-> "Invalid choice. Please choose from:",
                                arg |-> choices])
                /\ UNCHANGED <<ih_pc, ih_ret>>
get_choice_read(line) ==
  /\ UNCHANGED <<vars, fzVars, tsVars>>
  /\ ih_pc = "input"
  /\ ih_call.fn \in {"get_choice", "get_yes_no"}
  /\ Len(ih_lines) < MaxReads
  /\ ih_lines' = Append(ih_lines, line)
  /\ ih_call'  = ih_call
  /\ LET choices    == EffectiveChoices(ih_call.choices, ih_call.case_sensitive)
         user_input == EffectiveInput(line, ih_call.case_sensitive)
     IN  IF user_input \in Range(choices)
           THEN /\ ih_ret' = IF ih_call.fn = "get_yes_no"
                               THEN user_input \in {<<"y">>, <<"y", "e", "s">>}
                               ELSE user_input
                /\ ih_pc'  = "done"
                /\ UNCHANGED ih_out
           ELSE /\ ih_out' = Append(ih_out,
                               [msg |-> "Invalid choice. Please choose from:",
                                arg |-> choices])
                /\ UNCHANGED <<ih_pc, ih_ret>>

NextChoice ==
  \/ \E choices \in ChoiceLists, case_sensitive \in BOOLEAN :
       get_choice_call(choices, case_sensitive)
  \/ get_yes_no_call
  \/ \E line \in ChoiceLines : get_choice_read(line)
  \/ input_return

ChoiceInit == Init /\ InputHandlerIdle /\ FreezeIdle /\ TwoStageIdle
SpecChoice == ChoiceInit /\ [][NextChoice]_allVars

\* --------------------------------------------------------------- C12
\* Whether get_choice must accept `line`: it is in the list, after both
\* sides are lower-cased unless case_sensitive.
IsChoice(line, c) ==
  \E i \in 1 .. Len(c.choices) :
    IF c.case_sensitive THEN c.choices[i] = line
    ELSE Lower(c.choices[i]) = Lower(line)

\* C12: get_choice returns on the first line that is a member of choices
\* and re-prompts (one message) on every other line; with case_sensitive
\* False the comparison and the result are lower-cased, so the result is a
\* member of the lower-cased list; get_yes_no returns True exactly when that
\* accepted line, lower-cased, is "y" or "yes", and False exactly when it is
\* "n" or "no".
C12_FirstValidChoice ==
  ih_call.fn \in {"get_choice", "get_yes_no"} =>
    LET n == Len(ih_lines)
    IN  /\ ih_pc = "input" =>
             /\ \A j \in 1 .. n : ~IsChoice(ih_lines[j], ih_call)
             /\ Len(ih_out) = n
        /\ ih_pc = "done" =>
             /\ n >= 1
             /\ IsChoice(ih_lines[n], ih_call)
             /\ \A j \in 1 .. (n - 1) : ~IsChoice(ih_lines[j], ih_call)
             /\ Len(ih_out) = n - 1
        /\ (ih_pc = "done" /\ ih_call.fn = "get_choice") =>
             /\ ih_call.case_sensitive =>
                  /\ ih_ret = ih_lines[n]
                  /\ ih_ret \in Range(ih_call.choices)
             /\ ~ih_call.case_sensitive =>
                  /\ ih_ret = Lower(ih_lines[n])
                  /\ ih_ret \in Range(LowerAll(ih_call.choices))
        /\ (ih_pc = "done" /\ ih_call.fn = "get_yes_no") =>
             /\ ih_ret \in BOOLEAN
             /\ ih_ret = TRUE <=>
                  Lower(ih_lines[n]) \in {<<"y">>, <<"y", "e", "s">>}
             /\ ih_ret = FALSE <=>
                  Lower(ih_lines[n]) \in {<<"n">>, <<"n", "o">>}

\* A case-insensitive get_choice(["Y", "No"]) rejected a line and then
\* returned "no" for the typed "NO": a string that is not in the caller's
\* list.
C12_Witness ==
  /\ ih_call.fn = "get_choice"
  /\ ih_pc = "done"
  /\ ~ih_call.case_sensitive
  /\ ih_lines = << <<" ", "y">>, <<"N", "O">> >>
  /\ ih_ret = <<"n", "o">>
  /\ ih_ret \notin Range(ih_call.choices)

\* ============================================================== freeze
Min(a, b) == IF a <= b THEN a ELSE b

\* for param in model.encoder.parameters(): every parameter of the encoder
\* module, the shared embedding included when the encoder holds it.
EncoderParameters(n, shares) ==
  {EncBlock(i) : i \in 0 .. (n - 1)} \cup {EncNorm}
    \cup (IF shares THEN {Shared} ELSE {})

\* range(start_idx, end_idx) of the encoder branch (lines 182-194).
EncoderRange(n_layers, freeze_encoder_layers) ==
  IF freeze_encoder_layers > 0
    THEN 0 .. (Min(freeze_encoder_layers, n_layers) - 1)
    ELSE {}

\* range(start_idx, end_idx) of the decoder branch (lines 199-216).
DecoderRangeBottomOnly(n_layers, freeze_decoder_layers, freeze_from_bottom) ==
  IF freeze_decoder_layers > 0
    THEN 0 .. (Min(freeze_decoder_layers, n_layers) - 1)
    ELSE {}
DecoderRange(n_layers, freeze_decoder_layers, freeze_from_bottom) ==
  IF freeze_decoder_layers > 0
    THEN LET k == Min(freeze_decoder_layers, n_layers)
         IN  IF freeze_from_bottom
               THEN 0 .. (k - 1)
               ELSE (n_layers - k) .. (n_layers - 1)
    ELSE {}

\* blocks[i] for i in a range: IndexError unless -len <= i < len.
IndexErrorIn(range, len) == \E i \in range : i < 0 - len \/ i >= len

\* Layer counts passed to a model of n blocks: none, some, all, too many.
LayerCounts(n) == 0 .. (n + 1)

\* freeze_model_parameters(model, freeze_encoder, freeze_encoder_layers,
\*   freeze_decoder_layers, freeze_embeddings, freeze_from_bottom)
freeze_model_parameters(freeze_encoder, freeze_encoder_layers, freeze_decoder_layers, freeze_embeddings, freeze_from_bottom) ==
  LET enc == IF freeze_encoder
               THEN EncoderParameters(n_enc, tied)
               ELSE {EncBlock(i) :
                       i \in EncoderRange(n_enc, freeze_encoder_layers)}
      dec == {DecBlock(i) :
                i \in DecoderRange(n_dec, freeze_decoder_layers,
                                   freeze_from_bottom)}
      emb == IF freeze_embeddings THEN {Shared} ELSE {}
      raised ==
        \/ ~freeze_encoder
             /\ IndexErrorIn(EncoderRange(n_enc, freeze_encoder_layers), n_enc)
        \/ IndexErrorIn(DecoderRange(n_dec, freeze_decoder_layers,
                                     freeze_from_bottom), n_dec)
  IN  /\ fz_call' = [fn |-> "freeze_model_parameters",
                      freeze_encoder |-> freeze_encoder,
                      freeze_encoder_layers |-> freeze_encoder_layers,
                      freeze_decoder_layers |-> freeze_decoder_layers,
                      freeze_embeddings |-> freeze_embeddings,
                      freeze_from_bottom |-> freeze_from_bottom]
      /\ fz_err' = IF raised THEN "IndexError" ELSE "none"
      /\ requires_grad' =
           [p \in DOMAIN requires_grad |->
              IF p \in enc \cup dec \cup emb THEN FALSE ELSE requires_grad[p]]
      /\ UNCHANGED <<n_enc, n_dec, tied>>
      /\ UNCHANGED <<vars, ihVars, tsVars>>

\* A freshly loaded model: any number of blocks on each side, the encoder
\* holding the shared embedding (as T5ForConditionalGeneration does) or
\* not, every parameter trainable.
FreezeInit ==
  /\ n_enc \in 0 .. MaxBlocks
  /\ n_dec \in 0 .. MaxBlocks
  /\ tied  \in BOOLEAN
  /\ requires_grad = [p \in Parameters(n_enc, n_dec) |-> TRUE]
  /\ fz_call = [fn |-> "none"]
  /\ fz_err  = "none"

NextFreeze ==
  \E freeze_encoder \in BOOLEAN,
     freeze_encoder_layers \in LayerCounts(n_enc),
     freeze_decoder_layers \in LayerCounts(n_dec),
     freeze_embeddings \in BOOLEAN,
     freeze_from_bottom \in BOOLEAN :
    freeze_model_parameters(freeze_encoder, freeze_encoder_layers,
                            freeze_decoder_layers, freeze_embeddings,
                            freeze_from_bottom)

FreezeSpecInit == Init /\ InputHandlerIdle /\ FreezeInit /\ TwoStageIdle
SpecFreeze == FreezeSpecInit /\ [][NextFreeze]_allVars

\* --------------------------------------------------------------- C13
\* The blocks the claim names for a call with arguments c.
ClaimedEncoder(c) ==
  IF c.freeze_encoder
    THEN {EncBlock(i) : i \in 0 .. (n_enc - 1)} \cup {EncNorm}
    ELSE {EncBlock(i) : i \in 0 .. (Min(c.freeze_encoder_layers, n_enc) - 1)}
ClaimedDecoder(c) ==
  IF c.freeze_from_bottom
    THEN {DecBlock(i) : i \in 0 .. (Min(c.freeze_decoder_layers, n_dec) - 1)}
    ELSE {DecBlock(i) :
            i \in (n_dec - Min(c.freeze_decoder_layers, n_dec)) .. (n_dec - 1)}
\* A call with arguments c froze exactly the set `frozen`: those flags are
\* False afterwards, every other flag is what it was, nothing was raised.
FrozeExactly(c, frozen) ==
  /\ fz_err' = "none"
  /\ DOMAIN requires_grad' = DOMAIN requires_grad
  /\ \A p \in DOMAIN requires_grad :
       requires_grad'[p] = (requires_grad[p] /\ p \notin frozen)

\* C13 as stated: a call never sets a flag to True and freezes exactly the
\* encoder (all of it, or its first min(freeze_encoder_layers, n) blocks),
\* the first or last min(freeze_decoder_layers, m) decoder blocks, and the
\* shared embedding only when freeze_embeddings is True.
C13_SharedOnlyOnRequest ==
  [][fz_call'.fn = "freeze_model_parameters" =>
       FrozeExactly(fz_call',
         ClaimedEncoder(fz_call') \cup ClaimedDecoder(fz_call')
           \cup (IF fz_call'.freeze_embeddings THEN {Shared} ELSE {}))]_fzVars

\* C13 as amended: the same, except that the shared embedding is frozen
\* when freeze_embeddings is True and also when freeze_encoder is True on a
\* model whose encoder holds the shared embedding among its parameters.
C13_FreezesExactly ==
  [][fz_call'.fn = "freeze_model_parameters" =>
       FrozeExactly(fz_call',
         ClaimedEncoder(fz_call') \cup ClaimedDecoder(fz_call')
           \cup (IF \/ fz_call'.freeze_embeddings
                    \/ fz_call'.freeze_encoder /\ tied
                   THEN {Shared} ELSE {}))]_fzVars

\* freeze_encoder without freeze_embeddings on a model with tied embeddings
\* froze the shared embedding, and freezing one of two decoder blocks from
\* the top froze the last block and left the first trainable.
C13_Witness ==
  /\ fz_call.fn = "freeze_model_parameters"
  /\ fz_call.freeze_encoder
  /\ ~fz_call.freeze_embeddings
  /\ tied
  /\ ~requires_grad[Shared]
  /\ n_dec = 2
  /\ fz_call.freeze_decoder_layers = 1
  /\ ~fz_call.freeze_from_bottom
  /\ ~requires_grad[DecBlock(1)]
  /\ requires_grad[DecBlock(0)]
  /\ requires_grad[DecNorm]

\* =========================================================== two-stage
\* Token ids and texts are sequences of symbols; "<pad>" and "</s>" are
\* the tokenizer's special tokens, " " is the blank of a text.
SpecialTokens == {"<pad>", "</s>"}
IsTextToken(t) == t \notin SpecialTokens
IsNotBlank(t)  == t # " "

\* tokenizer.decode(ids, skip_special_tokens=True)
Decode(ids) == SelectSeq(ids, IsTextToken)

\* One row of tokenizer.batch_encode_plus(texts, max_length=len,
\* padding="max_length", truncation=True): the text's tokens and the end
\* marker, cut to len (the end marker kept), then padded to len.
Encode(text, len) ==
  LET toks == SelectSeq(text, IsNotBlank)
      kept == IF Len(toks) + 1 > len THEN SubSeq(toks, 1, len - 1) ELSE toks
      row  == kept \o <<"</s>">>
  IN  row \o [i \in 1 .. (len - Len(row)) |-> "<pad>"]

\* Rows of input_ids (all of one length), rows a generate call may return,
\* texts a caller passes as original_texts, and correction prompts.
InputRows  == { <<"a", "<pad>">>, <<"b", "a">> }
OutputRows == { <<"a", "</s>">>, <<"<pad>", "b">> }
OrigTexts  == { <<"x">>, << >> }
Prompts    == { [given |-> FALSE, text |-> << >>],
                [given |-> TRUE,  text |-> << >>],
                [given |-> TRUE,  text |-> <<"fix:">>] }
Batches(rows) == UNION { [1 .. b -> rows] : b \in 1 .. MaxBatch }

\* `correction_mode and self.correction_model is not None`
UseCorrectionModeOnly(correction_mode) == correction_mode
UseCorrection(correction_mode) ==
  correction_mode /\ correction_model # "None"

\* One element of correction_inputs (lines 141-144).
CorrectionInput(orig_text, decoded_output) ==
  IF correction_prompt.given /\ correction_prompt.text # << >>
    THEN orig_text \o <<" ">> \o correction_prompt.text \o <<" ">>
           \o <<"[SENTSEP]">> \o <<" ">> \o decoded_output
    ELSE orig_text \o <<" ">> \o <<"[SENTSEP]">> \o <<" ">> \o decoded_output

\* TwoStageT5Model.forward(input_ids, ..., correction_mode)
forward(correction_mode) ==
  /\ UNCHANGED <<vars, ihVars, fzVars>>
  /\ ts_pc = "idle"
  /\ ts_pc'    = "done"
  /\ ts_call'  = [fn |-> "forward", correction_mode |-> correction_mode]
  /\ LET m == IF UseCorrection(correction_mode)
                THEN correction_model ELSE "base"
     IN  /\ ts_trace' = << [model |-> m, method |-> "__call__"] >>
         /\ ts_ret'   = [outputs_of |-> m]
  /\ UNCHANGED <<correction_model, correction_prompt, initial_outputs,
                 correction_inputs>>

\* TwoStageT5Model.compute_weighted_loss(..., correction_mode): the loss is
\* computed from the logits of the one model it calls.
compute_weighted_loss(correction_mode) ==
  /\ UNCHANGED <<vars, ihVars, fzVars>>
  /\ ts_pc = "idle"
  /\ ts_pc'    = "done"
  /\ ts_call'  = [fn |-> "compute_weighted_loss",
                   correction_mode |-> correction_mode]
  /\ LET model_to_use == IF UseCorrection(correction_mode)
                           THEN correction_model ELSE "base"
     IN  /\ ts_trace' = << [model |-> model_to_use, method |-> "__call__"] >>
         /\ ts_ret'   = [loss_of |-> model_to_use]
  /\ UNCHANGED <<correction_model, correction_prompt, initial_outputs,
                 correction_inputs>>

\* generate_with_correction(input_ids, attention_mask, original_texts) is
\* called; original_texts is given (one text per sample) or None.
generate_with_correction_call(input_ids, texts_given, original_texts) ==
  /\ UNCHANGED <<vars, ihVars, fzVars>>
  /\ ts_pc = "idle"
  /\ Len(original_texts) = (IF texts_given THEN Len(input_ids) ELSE 0)
  /\ ts_pc'    = "stage1"
  /\ ts_call'  = [fn |-> "generate_with_correction",
                   input_ids |-> input_ids,
                   texts_given |-> texts_given,
                   original_texts |-> original_texts]
  /\ ts_trace' = << >>
  /\ ts_ret'   = None
  /\ initial_outputs'   = << >>
  /\ correction_inputs' = << >>
  /\ UNCHANGED <<correction_model, correction_prompt>>

\* Stage 1 (lines 119-145): self.model.generate returns `outputs`; without
\* a correction model that is the result, otherwise the correction inputs
\* are built from the decoded outputs.
generate_stage1(outputs) ==
  /\ UNCHANGED <<vars, ihVars, fzVars>>
  /\ ts_pc = "stage1"
  /\ Len(outputs) = Len(ts_call.input_ids)
  /\ ts_trace' = Append(ts_trace,
                    [model |-> "base", method |-> "generate",
                     input_ids |-> ts_call.input_ids, output |-> outputs])
  /\ initial_outputs' = outputs
  /\ IF correction_model = "None"
       THEN /\ ts_ret' = outputs
            /\ ts_pc'  = "done"
            /\ UNCHANGED correction_inputs
       ELSE LET decoded_outputs ==
                  [i \in 1 .. Len(outputs) |-> Decode(outputs[i])]
                original_texts ==
                  IF ts_call.texts_given THEN ts_call.original_texts
                  ELSE [i \in 1 .. Len(ts_call.input_ids) |->
                          Decode(ts_call.input_ids[i])]
                pairs == Min(Len(original_texts), Len(decoded_outputs))
            IN  /\ correction_inputs' =
                     [i \in 1 .. pairs |->
                        CorrectionInput(original_texts[i], decoded_outputs[i])]
                /\ ts_pc' = "stage2"
                /\ UNCHANGED ts_ret
  /\ UNCHANGED <<correction_model, correction_prompt, ts_call>>

\* Stage 2 (lines 148-163): the correction inputs are tokenized to the
\* width of input_ids and self.correction_model.generate returns `outputs`.
generate_stage2(outputs) ==
  /\ UNCHANGED <<vars, ihVars, fzVars>>
  /\ ts_pc = "stage2"
  /\ Len(outputs) = Len(correction_inputs)
  /\ ts_trace' = Append(ts_trace,
                    [model |-> correction_model, method |-> "generate",
                     input_ids |->
                       [i \in 1 .. Len(correction_inputs) |->
                          Encode(correction_inputs[i],
                                 Len(ts_call.input_ids[1]))],
                     output |-> outputs])
  /\ ts_ret' = outputs
  /\ ts_pc'  = "done"
  /\ UNCHANGED <<correction_model, correction_prompt, ts_call,
                 initial_outputs, correction_inputs>>

\* The caller takes the result; another call may follow.
two_stage_return ==
  /\ UNCHANGED <<vars, ihVars, fzVars>>
  /\ ts_pc = "done"
  /\ ts_pc'    = "idle"
  /\ ts_call'  = [fn |-> "none"]
  /\ ts_trace' = << >>
  /\ ts_ret'   = None
  /\ initial_outputs'   = << >>
  /\ correction_inputs' = << >>
  /\ UNCHANGED <<correction_model, correction_prompt>>

\* TwoStageT5Model(hparams, base_model, tokenizer, correction_model,
\* correction_prompt): with or without a correction model and a prompt.
TwoStageInit ==
  /\ correction_model  \in {"None", "correction"}
  /\ correction_prompt \in Prompts
  /\ ts_pc = "idle"
  /\ ts_call = [fn |-> "none"]
  /\ initial_outputs = << >>
  /\ correction_inputs = << >>
  /\ ts_trace = << >>
  /\ ts_ret = None

NextTwoStage ==
  \/ \E correction_mode \in BOOLEAN : forward(correction_mode)
  \/ \E correction_mode \in BOOLEAN : compute_weighted_loss(correction_mode)
  \/ \E input_ids \in Batches(InputRows) :
       \/ generate_with_correction_call(input_ids, FALSE, << >>)
       \/ \E original_texts \in Batches(OrigTexts) :
            generate_with_correction_call(input_ids, TRUE, original_texts)
  \/ \E outputs \in Batches(OutputRows) : generate_stage1(outputs)
  \/ \E outputs \in Batches(OutputRows) : generate_stage2(outputs)
  \/ two_stage_return

TwoStageSpecInit == Init /\ InputHandlerIdle /\ FreezeIdle /\ TwoStageInit
SpecTwoStage == TwoStageSpecInit /\ [][NextTwoStage]_allVars

\* --------------------------------------------------------------- C14
\* The correction input the claim describes for sample i: the original
\* text (the one passed, else the decoded input), the prompt when there is
\* a non-empty one, the separator, and the decoded initial output.
ClaimedCorrectionInput(i) ==
  LET orig == IF ts_call.texts_given THEN ts_call.original_texts[i]
              ELSE SelectSeq(ts_call.input_ids[i], IsTextToken)
      dec  == SelectSeq(ts_trace[1].output[i], IsTextToken)
      mid  == IF correction_prompt.given /\ correction_prompt.text # << >>
                THEN <<" ">> \o correction_prompt.text ELSE << >>
  IN  orig \o mid \o <<" ", "[SENTSEP]", " ">> \o dec

====
